---------------------------- MODULE Spec2Model ----------------------------
(***************************************************************************)
(* Model of _states/jenkins_config.py: the Salt states dockercloud and     *)
(* adminemail, the decorators _config_xmltree and _root_tag that wrap      *)
(* them, and the XML mutators _insert_docker and _set_admin_email.         *)
(*                                                                         *)
(* Python values are modelled as follows.                                  *)
(*   - An lxml element is a record [tag, attrib, text, children]; attrib   *)
(*     is a sequence of <<key, value>> pairs, text is <<>> for None and    *)
(*     <<s>> for the string s, children is a sequence of elements.         *)
(*   - An argument that str() is applied to is a record [t, s, i]: PyStr   *)
(*     or PyInt.                                                           *)
(*   - A call's outcome is a record: it returned a dict, it returned a     *)
(*     function object, or an exception left it.                           *)
(*                                                                         *)
(* The name `wraps` is used by both decorators and is never imported.      *)
(* The model takes it to be functools.wraps (which copies metadata only),  *)
(* i.e. it models the functions as they behave once the module loads.      *)
(***************************************************************************)
EXTENDS Integers, Sequences, FiniteSets, TLC

VARIABLES
    disk,        \* Spec: jenkins home directory, file name -> file content
    diskBefore,  \* Spec: disk at the start of the last invocation
    call,        \* Spec: the last invocation (function, arguments, test flag)
    out,         \* Spec: what the last invocation produced
    loaded,      \* Spec: the document the last invocation parsed (<<>> if none)
    mem,         \* Spec: that document when the invocation ended
    tree0,       \* SpecMut: the document the mutators started from
    prev,        \* SpecMut: the document before the last mutator application
    tree,        \* SpecMut: the document now
    op,          \* SpecMut: the last mutator application
    napply       \* SpecMut: number of applications so far

vars == <<disk, diskBefore, call, out, loaded, mem, tree0, prev, tree, op, napply>>

---------------------------------------------------------------------------
(* Python values                                                           *)

PyStr(s) == [t |-> "str", s |-> s, i |-> 0]
PyInt(i) == [t |-> "int", s |-> "", i |-> i]

Digit(d) == CASE d = 0 -> "0" [] d = 1 -> "1" [] d = 2 -> "2" [] d = 3 -> "3"
              [] d = 4 -> "4" [] d = 5 -> "5" [] d = 6 -> "6" [] d = 7 -> "7"
              [] d = 8 -> "8" [] d = 9 -> "9"

RECURSIVE IntToStr(_)
IntToStr(n) == IF n < 10 THEN Digit(n) ELSE IntToStr(n \div 10) \o Digit(n % 10)

\* str(v) at line 30
str(v) == IF v.t = "int" THEN IntToStr(v.i) ELSE v.s

---------------------------------------------------------------------------
(* lxml elements                                                           *)

\* element.text is None
NoText == <<>>

Element(tagname, attrib) ==
    [tag |-> tagname, attrib |-> attrib, text |-> NoText, children |-> <<>>]

\* parent.find(tagname): index of the first child with that tag, 0 for None
find(parent, tagname) ==
    LET hits == {i \in 1..Len(parent.children) : parent.children[i].tag = tagname}
    IN  IF hits = {} THEN 0 ELSE CHOOSE i \in hits : \A j \in hits : i <= j

\* parent.findall(tagname): indices of the children with that tag, in order
RECURSIVE findallFrom(_, _, _)
findallFrom(parent, tagname, i) ==
    IF i > Len(parent.children) THEN <<>>
    ELSE (IF parent.children[i].tag = tagname THEN <<i>> ELSE <<>>)
         \o findallFrom(parent, tagname, i + 1)

findall(parent, tagname) == findallFrom(parent, tagname, 1)

\* etree.SubElement(parent, tagname, attrib): parent with the new last child
SubElement(parent, tagname, attrib) ==
    [parent EXCEPT !.children = Append(@, Element(tagname, attrib))]


\* etree.tostring(tree, pretty_print=True), as the sequence of its lines.
\* An element with no text and no children is <tag/>; an element with a text
\* node is written on one line with its content; any other element is
\* written as an opening line, its children indented by two spaces, and a
\* closing line.  The texts of the model need no escaping.
RECURSIVE AttribText(_)
AttribText(attrib) ==
    IF attrib = <<>> THEN ""
    ELSE " " \o Head(attrib)[1] \o "=\"" \o Head(attrib)[2] \o "\""
         \o AttribText(Tail(attrib))

RECURSIVE CompactText(_)
RECURSIVE CompactChildren(_)
CompactChildren(children) ==
    IF children = <<>> THEN ""
    ELSE CompactText(Head(children)) \o CompactChildren(Tail(children))

CompactText(e) ==
    IF e.text = NoText /\ e.children = <<>>
    THEN "<" \o e.tag \o AttribText(e.attrib) \o "/>"
    ELSE "<" \o e.tag \o AttribText(e.attrib) \o ">"
         \o (IF e.text = NoText THEN "" ELSE e.text[1])
         \o CompactChildren(e.children)
         \o "</" \o e.tag \o ">"

RECURSIVE PrettyLines(_, _)
RECURSIVE PrettyChildren(_, _)
PrettyChildren(children, indent) ==
    IF children = <<>> THEN <<>>
    ELSE PrettyLines(Head(children), indent)
         \o PrettyChildren(Tail(children), indent)

PrettyLines(e, indent) ==
    IF e.children = <<>> \/ e.text # NoText
    THEN <<indent \o CompactText(e)>>
    ELSE <<indent \o "<" \o e.tag \o AttribText(e.attrib) \o ">">>
         \o PrettyChildren(e.children, indent \o "  ")
         \o <<indent \o "</" \o e.tag \o ">">>

\* _xmlpp (lines 13-14); dockercloud makes the same call at lines 156, 159
_xmlpp(t) == PrettyLines(t, "")

\* _changes_diff (lines 17-18): difflib.unified_diff is a generator function,
\* so the call returns a generator object over the two line lists and
\* computes nothing until it is iterated.
_changes_diff(before, after) ==
    [t |-> "generator", a |-> before, b |-> after]

\* _find_or_add without the lookup: a child is added every time
_find_or_add_always(tagname, parent) ==
    [parent |-> SubElement(parent, tagname, <<>>), idx |-> Len(parent.children) + 1]

\* _find_or_add (lines 21-25): the parent after the call and the index of
\* the returned child in it
_find_or_add(tagname, parent) ==
    LET i == find(parent, tagname)
    IN  IF i = 0
        THEN [parent |-> SubElement(parent, tagname, <<>>),
              idx |-> Len(parent.children) + 1]
        ELSE [parent |-> parent, idx |-> i]

\* _subelement_with_text (lines 28-31): parent with the new last child
_subelement_with_text(parent, tagname, text) ==
    LET p == SubElement(parent, tagname, <<>>)
    IN  [p EXCEPT !.children[Len(p.children)].text = <<str(text)>>]

\* _root_tag with the check made after func has run on the tree
_root_tag_late(tagname, t, mutated) ==
    IF t.tag # tagname
    THEN [exc |-> "ValueError", tree |-> mutated]
    ELSE [exc |-> "", tree |-> mutated]

\* _root_tag's wrapper (lines 37-42): `mutated` is what func(tree, ...) makes
\* of the tree; it is used only when the root tag is the expected one.
_root_tag(tagname, t, mutated) ==
    IF t.tag # tagname
    THEN [exc |-> "ValueError", tree |-> t]
    ELSE [exc |-> "", tree |-> mutated]

---------------------------------------------------------------------------
(* The mutators                                                            *)

dockercloud_tag == "com.nirima.jenkins.plugins.docker.DockerCloud"

\* The loop of lines 85-88 over clouds.findall(dockercloud_tag): the index in
\* `clouds` of the first entry that has a <name> child whose text is the
\* literal 'name' (the first such child decides), 0 when the loop ends
\* without break.
LoopBreakAt(clouds) ==
    LET cands == findall(clouds, dockercloud_tag)
        hit(k) == LET dc == clouds.children[cands[k]]
                      nametag == find(dc, "name")
                  IN  nametag # 0 /\ dc.children[nametag].text = <<"name">>
        hits  == {k \in 1..Len(cands) : hit(k)}
    IN  IF hits = {} THEN 0
        ELSE cands[CHOOSE k \in hits : \A j \in hits : k <= j]

\* Lines 93-101: the seven children appended to the entry
PopulateEntry(dockercloud, name, server_url, connect_timeout, read_timeout, capacity) ==
    LET d1 == _subelement_with_text(dockercloud, "name", name)
        d2 == SubElement(d1, "templates", << <<"class", "empty-list">> >>)
        d3 == _subelement_with_text(d2, "serverUrl", server_url)
        d4 == _subelement_with_text(d3, "connectTimeout", connect_timeout)
        d5 == _subelement_with_text(d4, "readTimeout", read_timeout)
        d6 == SubElement(d5, "credentialsId", <<>>)
    IN  _subelement_with_text(d6, "containerCap", capacity)

\* The body of _insert_docker (lines 82-101): the root after the call
InsertDockerBody(hudson, name, version, server_url, connect_timeout, read_timeout, capacity) ==
    LET fa      == _find_or_add("clouds", hudson)
        ci      == fa.idx
        clouds  == fa.parent.children[ci]
        at      == LoopBreakAt(clouds)
        clouds1 == IF at # 0 THEN clouds
                   ELSE SubElement(clouds, dockercloud_tag,
                            << <<"plugin", "docker-plugin@" \o version>> >>)
        di      == IF at # 0 THEN at ELSE Len(clouds1.children)
        entry   == PopulateEntry(clouds1.children[di], name, server_url,
                                 connect_timeout, read_timeout, capacity)
    IN  [fa.parent EXCEPT
            !.children[ci] = [clouds1 EXCEPT !.children[di] = entry]]

\* _insert_docker as decorated at line 79: [exc, tree]
_insert_docker(t, name, version, server_url, connect_timeout, read_timeout, capacity) ==
    _root_tag("hudson", t,
              InsertDockerBody(t, name, version, server_url, connect_timeout,
                               read_timeout, capacity))

\* The body of _set_admin_email (lines 174-176)
SetAdminEmailBody(root, emailaddress) ==
    LET fa == _find_or_add("adminAddress", root)
    IN  [fa.parent EXCEPT !.children[fa.idx].text = <<emailaddress>>]

\* _set_admin_email as decorated at line 172: [exc, tree]
_set_admin_email(t, emailaddress) ==
    _root_tag("jenkins.model.JenkinsLocationConfiguration", t,
              SetAdminEmailBody(t, emailaddress))

\* dockercloud's keyword defaults (lines 143-144) and the plugin version it
\* passes (line 154).  An optional argument is <<>> when the caller leaves
\* it out and <<v>> when the caller gives v.
DefaultConnectTimeout == 0
DefaultReadTimeout == 0
DefaultCapacity == 100
PluginVersion == "0.15.0"
OrDefault(arg, default) == IF arg = <<>> THEN default ELSE arg[1]

---------------------------------------------------------------------------
(* Documents and arguments the model runs on                               *)

Leaf(tagname, text) ==
    [tag |-> tagname, attrib |-> <<>>, text |-> <<text>>, children |-> <<>>]
Node(tagname, attrib, children) ==
    [tag |-> tagname, attrib |-> attrib, text |-> NoText, children |-> children]

\* A docker cloud entry as Jenkins writes one
Cloud(name) ==
    Node(dockercloud_tag, << <<"plugin", "docker-plugin@0.15.0">> >>,
         << Leaf("name", name),
            Node("templates", << <<"class", "empty-list">> >>, <<>>),
            Leaf("serverUrl", "http://old:2376"),
            Leaf("connectTimeout", "0"),
            Leaf("readTimeout", "0"),
            Node("credentialsId", <<>>, <<>>),
            Leaf("containerCap", "10") >>)

\* Another plugin's cloud, and a docker cloud entry with no <name> child
OtherCloud == Node("hudson.plugins.ec2.EC2Cloud", <<>>, << Leaf("name", "ec2") >>)
Nameless == Node(dockercloud_tag, <<>>, << Leaf("serverUrl", "http://old:2376") >>)

Hudson(children) == Node("hudson", <<>>, children)
Clouds(children) == Node("clouds", <<>>, children)

HudsonDocs ==
    { Hudson(<<>>),
      Hudson(<< Leaf("numExecutors", "2") >>),
      Hudson(<< Leaf("numExecutors", "2"), Clouds(<<>>) >>),
      Hudson(<< Clouds(<< Cloud("build1") >>) >>),
      Hudson(<< Clouds(<< Cloud("name") >>) >>),
      Hudson(<< Clouds(<< OtherCloud, Cloud("build1"), Cloud("name") >>) >>),
      Hudson(<< Clouds(<< Nameless, Cloud("build2") >>) >>),
      Hudson(<< Clouds(<< Cloud("build2") >>), Clouds(<< Cloud("build1") >>) >>) }

JLC(children) == Node("jenkins.model.JenkinsLocationConfiguration", <<>>, children)

LocationDocs ==
    { JLC(<<>>),
      JLC(<< Leaf("adminAddress", "old@example.com") >>),
      JLC(<< Leaf("jenkinsUrl", "http://j/"), Leaf("adminAddress", "ops@example.com") >>),
      JLC(<< Node("adminAddress", <<>>, <<>>), Leaf("jenkinsUrl", "http://j/") >>),
      JLC(<< Leaf("adminAddress", "a@example.com"), Leaf("adminAddress", "b@example.com") >>) }

OtherDocs == { Node("project", <<>>, <<>>) }

Docs == HudsonDocs \cup LocationDocs \cup OtherDocs

Names == {"build1", "name"}
ServerUrls == {"http://d:2376"}
Timeouts == {<<>>, <<30>>}
Capacities == {<<>>, <<5>>}
Addresses == {"ops@example.com", "new@example.com"}

\* No document: what `loaded` and `mem` hold when nothing was parsed
NoDoc == Node("", <<>>, <<>>)

\* Number of mutator applications the mutator specification follows
MaxApply == 2

---------------------------------------------------------------------------
(* SpecMut: the mutators applied, one after another, to one document       *)

NoOp == [fn |-> "", name |-> "", server_url |-> "", connect_timeout |-> <<>>,
         read_timeout |-> <<>>, capacity |-> <<>>, exc |-> ""]

SpecIdle ==
    /\ disk = <<>>
    /\ diskBefore = disk
    /\ call = <<>>
    /\ out = <<>>
    /\ loaded = NoDoc
    /\ mem = NoDoc

InitMut ==
    /\ tree0 \in Docs
    /\ tree = tree0
    /\ prev = tree0
    /\ op = NoOp
    /\ napply = 0
    /\ SpecIdle

\* _insert_docker called the way dockercloud calls it (lines 157-158)
ApplyInsertDocker(name, server_url, connect_timeout, read_timeout, capacity) ==
    /\ napply < MaxApply
    /\ \E r \in {_insert_docker(tree, PyStr(name), PluginVersion,
                     PyStr(server_url),
                     PyInt(OrDefault(connect_timeout, DefaultConnectTimeout)),
                     PyInt(OrDefault(read_timeout, DefaultReadTimeout)),
                     PyInt(OrDefault(capacity, DefaultCapacity)))} :
           /\ tree' = r.tree
           /\ op' = [fn |-> "_insert_docker", name |-> name,
                     server_url |-> server_url,
                     connect_timeout |-> connect_timeout,
                     read_timeout |-> read_timeout, capacity |-> capacity,
                     exc |-> r.exc]
    /\ prev' = tree
    /\ napply' = napply + 1
    /\ UNCHANGED <<disk, diskBefore, call, out, loaded, mem, tree0>>

\* _set_admin_email called the way adminemail calls it (line 194)
ApplySetAdminEmail(emailaddress) ==
    /\ napply < MaxApply
    /\ \E r \in {_set_admin_email(tree, emailaddress)} :
           /\ tree' = r.tree
           /\ op' = [NoOp EXCEPT !.fn = "_set_admin_email",
                                 !.name = emailaddress, !.exc = r.exc]
    /\ prev' = tree
    /\ napply' = napply + 1
    /\ UNCHANGED <<disk, diskBefore, call, out, loaded, mem, tree0>>

NextMut ==
    \/ \E name \in Names, server_url \in ServerUrls, connect_timeout \in Timeouts,
          capacity \in Capacities :
          ApplyInsertDocker(name, server_url, connect_timeout, <<>>, capacity)
    \/ \E emailaddress \in Addresses : ApplySetAdminEmail(emailaddress)

SpecMut == InitMut /\ [][NextMut]_vars

---------------------------------------------------------------------------
(* The configuration files and the two states                              *)

ConfigXml == "config.xml"
LocationXml == "jenkins.model.JenkinsLocationConfiguration.xml"
FileNames == {ConfigXml, LocationXml}

\* What the jenkins home directory holds under a file name.  A well-formed
\* file is its document together with its layout (whether it starts with an
\* XML declaration, whether it is indented): two files with the same
\* document and different layouts are different bytes.
Missing == [kind |-> "missing", decl |-> FALSE, pretty |-> FALSE, doc |-> NoDoc]
Malformed == [kind |-> "malformed", decl |-> FALSE, pretty |-> FALSE, doc |-> NoDoc]
XmlFile(decl, pretty, doc) == [kind |-> "xml", decl |-> decl, pretty |-> pretty, doc |-> doc]

\* _get_config (lines 47-57): [exc, fpath]
_get_config(d, fname) ==
    IF d[fname].kind = "missing"
    THEN [exc |-> "IOError", fpath |-> ""]
    ELSE [exc |-> "", fpath |-> fname]

\* _parse_config (lines 60-65): [exc, tree].  The parser drops the layout
\* (remove_blank_text) and keeps the document.
_parse_config(d, fname) ==
    LET g == _get_config(d, fname)
    IN  IF g.exc # "" THEN [exc |-> g.exc, tree |-> NoDoc]
        ELSE IF d[g.fpath].kind = "malformed"
        THEN [exc |-> "XMLSyntaxError", tree |-> NoDoc]
        ELSE [exc |-> "", tree |-> d[g.fpath].doc]

\* _write_config (lines 68-76): [exc, disk].  The file is replaced by the
\* indented document with an XML declaration.
_write_config(d, fname, t) ==
    LET g == _get_config(d, fname)
    IN  IF g.exc # "" THEN [exc |-> g.exc, disk |-> d]
        ELSE [exc |-> "", disk |-> [d EXCEPT ![g.fpath] = XmlFile(TRUE, TRUE, t)]]

\* _empty_result (lines 104-110); the empty dict of 'changes' is <<>> and the
\* result None is "None"
_empty_result(name) ==
    [changes |-> <<>>, comment |-> "", name |-> name, result |-> "None"]

\* _error (lines 113-116)
_error(ret, msg) == [ret EXCEPT !.comment = msg, !.result = "False"]

\* sep.join(items) (lines 163, 167, 198, 200): [exc, s].  str.join raises
\* TypeError on an item that is not a string.
RECURSIVE JoinStrings(_, _)
JoinStrings(sep, items) ==
    IF Len(items) = 1 THEN Head(items).s
    ELSE Head(items).s \o sep \o JoinStrings(sep, Tail(items))

join(sep, items) ==
    IF \E k \in 1..Len(items) : items[k].t # "str"
    THEN [exc |-> "TypeError", s |-> ""]
    ELSE [exc |-> "", s |-> IF items = <<>> THEN "" ELSE JoinStrings(sep, items)]

\* How an invocation ends: the value it returns or the exception that leaves
\* it, the directory, the parsed document and the document in memory.
NoRet == [changes |-> <<>>, comment |-> "", name |-> "", result |-> ""]
Returned(ret, d, parsed, t) ==
    [out |-> [kind |-> "dict", exc |-> "", caught |-> "", ret |-> ret],
     disk |-> d, loaded |-> parsed, mem |-> t]
ReturnedFunction(caught, d) ==
    [out |-> [kind |-> "function", exc |-> "", caught |-> caught, ret |-> NoRet],
     disk |-> d, loaded |-> NoDoc, mem |-> NoDoc]
Raised(exc, d, parsed, t) ==
    [out |-> [kind |-> "raise", exc |-> exc, caught |-> "", ret |-> NoRet],
     disk |-> d, loaded |-> parsed, mem |-> t]

\* The body of dockercloud (lines 154-169).  Line 166 reads the name `tree`,
\* which is no local of dockercloud (the parameter is _tree) and no global
\* of the module: the apply branch ends there with NameError, before
\* _write_config is entered, and lines 167-169 are not reached.
dockercloud(name, server_url, connect_timeout, read_timeout, capacity, conffile, _tree, test, d) ==
    LET ret    == _empty_result(name)
        before == _xmlpp(_tree)
        r      == _insert_docker(_tree, PyStr(name), PluginVersion, PyStr(server_url),
                                 PyInt(connect_timeout), PyInt(read_timeout),
                                 PyInt(capacity))
    IN  IF r.exc # "" THEN Raised(r.exc, d, _tree, r.tree)
        ELSE LET after   == _xmlpp(r.tree)
                 changes == _changes_diff(before, after)
                 comment == "updated configuration file " \o conffile
             IN  IF test
                 THEN LET j == join("\n", <<PyStr("would " \o comment), PyStr("diff"), changes>>)
                      IN  IF j.exc # "" THEN Raised(j.exc, d, _tree, r.tree)
                          ELSE Returned([ret EXCEPT !.comment = j.s, !.result = "None"],
                                        d, _tree, r.tree)
                 ELSE Raised("NameError", d, _tree, r.tree)

\* A call of _empty_result with the positional arguments `args`: the
\* function has exactly one parameter, any other number is a TypeError.
CallEmptyResult(args) ==
    IF Len(args) # 1 THEN [exc |-> "TypeError", ret |-> NoRet]
    ELSE [exc |-> "", ret |-> _empty_result(args[1])]

\* The body of adminemail (lines 191-202).  Line 191 calls _empty_result
\* with no argument.  No line of the body calls _write_config.
adminemail(name, conffile, _tree, test, d) ==
    LET e == CallEmptyResult(<<>>)
    IN  IF e.exc # "" THEN Raised(e.exc, d, _tree, _tree)
        ELSE LET comment == "set admin email to " \o name
                 before  == _xmlpp(_tree)
                 r       == _set_admin_email(_tree, name)
             IN  IF r.exc # "" THEN Raised(r.exc, d, _tree, r.tree)
                 ELSE LET after   == _xmlpp(r.tree)
                          changes == _changes_diff(before, after)
                          j == join("\n", <<PyStr((IF test THEN "would " ELSE "") \o comment),
                                            PyStr("diff"), changes>>)
                      IN  IF j.exc # "" THEN Raised(j.exc, d, _tree, r.tree)
                          ELSE Returned([e.ret EXCEPT !.comment = j.s,
                                            !.result = IF test THEN "None" ELSE "True"],
                                        d, _tree, r.tree)

\* An invocation: [fn, name, server_url, connect_timeout, read_timeout,
\* capacity, conffile, test].  The optional arguments are <<>> or <<v>>.
NoCall == [fn |-> "", name |-> "", server_url |-> "", connect_timeout |-> <<>>,
           read_timeout |-> <<>>, capacity |-> <<>>, conffile |-> <<>>, test |-> FALSE]

\* The wrapper of _config_xmltree (lines 125-138) around the state c.fn.
\* kwargs['conffile'] is a KeyError when the caller gives no conffile; when
\* _parse_config raises, the wrapper returns the function error_func
\* (line 136) without calling it.
_config_xmltree(c, d) ==
    IF c.conffile = <<>> THEN Raised("KeyError", d, NoDoc, NoDoc)
    ELSE LET fname == c.conffile[1]
             p     == _parse_config(d, fname)
         IN  IF p.exc # "" THEN ReturnedFunction(p.exc, d)
             ELSE IF c.fn = "dockercloud"
             THEN dockercloud(c.name, c.server_url,
                              OrDefault(c.connect_timeout, DefaultConnectTimeout),
                              OrDefault(c.read_timeout, DefaultReadTimeout),
                              OrDefault(c.capacity, DefaultCapacity),
                              fname, p.tree, c.test, d)
             ELSE adminemail(c.name, fname, p.tree, c.test, d)

---------------------------------------------------------------------------
(* Spec: invocations of the two states against a jenkins home directory    *)

MutIdle ==
    /\ tree0 = NoDoc
    /\ prev = NoDoc
    /\ tree = NoDoc
    /\ op = NoOp
    /\ napply = 0

\* The directories the model starts from: every content of config.xml beside
\* a well-formed location file, and every content of the location file
\* beside a well-formed config.xml
ConfigContents ==
    {Missing, Malformed, XmlFile(FALSE, FALSE, Hudson(<<>>))}
    \cup {XmlFile(TRUE, TRUE, doc) : doc \in HudsonDocs \cup OtherDocs}

LocationContents ==
    {Missing, Malformed, XmlFile(FALSE, TRUE, JLC(<<>>))}
    \cup {XmlFile(TRUE, TRUE, doc) : doc \in LocationDocs \cup OtherDocs}

Directory(c, l) == [f \in FileNames |-> IF f = ConfigXml THEN c ELSE l]

Directories ==
    {Directory(c, XmlFile(TRUE, TRUE, JLC(<<>>))) : c \in ConfigContents}
    \cup {Directory(XmlFile(TRUE, TRUE, Hudson(<<>>)), l) : l \in LocationContents}

Init ==
    /\ disk \in Directories
    /\ diskBefore = disk
    /\ call = NoCall
    /\ out = [kind |-> "", exc |-> "", caught |-> "", ret |-> NoRet]
    /\ loaded = NoDoc
    /\ mem = NoDoc
    /\ MutIdle

\* One invocation of the state c.fn by the Salt minion
Dockercloud(name, server_url, connect_timeout, capacity, conffile, test) ==
    LET c == [fn |-> "dockercloud", name |-> name, server_url |-> server_url,
              connect_timeout |-> connect_timeout, read_timeout |-> <<>>,
              capacity |-> capacity, conffile |-> conffile, test |-> test]
    IN  \E r \in {_config_xmltree(c, disk)} :
            /\ call' = c
            /\ diskBefore' = disk
            /\ disk' = r.disk
            /\ out' = r.out
            /\ loaded' = r.loaded
            /\ mem' = r.mem
            /\ UNCHANGED <<tree0, prev, tree, op, napply>>

Adminemail(name, conffile, test) ==
    LET c == [NoCall EXCEPT !.fn = "adminemail", !.name = name,
                            !.conffile = conffile, !.test = test]
    IN  \E r \in {_config_xmltree(c, disk)} :
            /\ call' = c
            /\ diskBefore' = disk
            /\ disk' = r.disk
            /\ out' = r.out
            /\ loaded' = r.loaded
            /\ mem' = r.mem
            /\ UNCHANGED <<tree0, prev, tree, op, napply>>

ConfFiles == {<<>>} \cup {<<f>> : f \in FileNames}

Next ==
    \/ \E name \in Names, server_url \in ServerUrls, connect_timeout \in Timeouts,
          capacity \in Capacities, conffile \in ConfFiles, test \in BOOLEAN :
          Dockercloud(name, server_url, connect_timeout, capacity, conffile, test)
    \/ \E name \in Addresses, conffile \in ConfFiles, test \in BOOLEAN :
          Adminemail(name, conffile, test)

Spec == Init /\ [][Next]_vars

---------------------------------------------------------------------------
(* Properties of the invocations, stated for Spec                          *)

ExpectedRoot(fn) ==
    IF fn = "dockercloud" THEN "hudson"
    ELSE "jenkins.model.JenkinsLocationConfiguration"

Invoked == call.fn # ""
ConfGiven == Invoked /\ call.conffile # <<>>
FileBefore == diskBefore[call.conffile[1]]

\* The last invocation named a file that parses and has the root tag its
\* mutator expects
ValidConfig ==
    /\ ConfGiven
    /\ FileBefore.kind = "xml"
    /\ FileBefore.doc.tag = ExpectedRoot(call.fn)

\* The last invocation named a file that is missing (FileNotFound), is
\* malformed (ParseError) or has another root tag (SchemaMismatch)
FailingConfig ==
    /\ ConfGiven
    /\ \/ FileBefore.kind \in {"missing", "malformed"}
       \/ FileBefore.kind = "xml" /\ FileBefore.doc.tag # ExpectedRoot(call.fn)

\* The lines a unified diff of a and b marks: the common leading lines, the
\* lines only in a, the lines only in b, the common trailing lines; nothing
\* when a = b (hunk headers left out).
CommonPrefix(a, b) ==
    LET n == IF Len(a) < Len(b) THEN Len(a) ELSE Len(b)
        ks == {k \in 0..n : \A i \in 1..k : a[i] = b[i]}
    IN  CHOOSE k \in ks : \A j \in ks : j <= k

CommonSuffix(a, b, p) ==
    LET n == (IF Len(a) < Len(b) THEN Len(a) ELSE Len(b)) - p
        ks == {k \in 0..n : \A i \in 1..k : a[Len(a) + 1 - i] = b[Len(b) + 1 - i]}
    IN  CHOOSE k \in ks : \A j \in ks : j <= k

DiffLines(a, b) ==
    IF a = b THEN <<>>
    ELSE LET p == CommonPrefix(a, b)
             q == CommonSuffix(a, b, p)
         IN  [i \in 1..p |-> " " \o a[i]]
             \o [i \in 1..(Len(a) - p - q) |-> "-" \o a[p + i]]
             \o [i \in 1..(Len(b) - p - q) |-> "+" \o b[p + i]]
             \o [i \in 1..q |-> " " \o a[Len(a) - q + i]]

\* C1: an invocation with the dry-run flag set on a valid config file leaves
\* the directory as it was and returns a record whose result is None.
C1_DryRunNeverWrites ==
    (ValidConfig /\ call.test)
    => /\ disk = diskBefore
       /\ out.kind = "dict"
       /\ out.ret.result = "None"

\* C2: an invocation with the dry-run flag unset on a valid config file
\* returns result True, and the file then holds the canonical serialization
\* of the mutated document.
C2_ApplyPersists ==
    (ValidConfig /\ ~call.test)
    => /\ out.kind = "dict"
       /\ out.ret.result = "True"
       /\ disk = [diskBefore EXCEPT ![call.conffile[1]] = XmlFile(TRUE, TRUE, mem)]

\* C3: an invocation on a missing file, a malformed file or a file with the
\* wrong root tag returns one record with result False, a non-empty comment
\* and no diff.
C3_FailureRecord ==
    FailingConfig
    => /\ out.kind = "dict"
       /\ out.ret.name = call.name
       /\ out.ret.result = "False"
       /\ out.ret.comment # ""
       /\ out.ret.changes = <<>>

\* The last invocation ended in FileNotFound, ParseError or SchemaMismatch
EndedInError ==
    \/ out.kind = "function" /\ out.caught \in {"IOError", "XMLSyntaxError"}
    \/ out.kind = "raise" /\ out.exc = "ValueError"

\* C4: when an invocation is made on a failing config file, or ends in
\* FileNotFound, ParseError or SchemaMismatch, the document in memory is the
\* document that was parsed (no mutator step has run) and the directory is
\* as it was before the invocation.
C4_ErrorsBeforeMutation ==
    (FailingConfig \/ EndedInError)
    => /\ mem = loaded
       /\ disk = diskBefore

\* C4 witness: dockercloud has been run, dry-run unset, on a parsed document
\* whose root is not <hudson>, and ended in the root-tag ValueError
C4_Witness ==
    /\ call.fn = "dockercloud" /\ ~call.test
    /\ out.kind = "raise" /\ out.exc = "ValueError"
    /\ loaded.tag = "project"

\* C8: from the same directory and with the same arguments the dry-run and
\* the apply invocation both return a record; the two carry the same diff,
\* which is the diff between the serialization before the call and the
\* content apply writes; they differ in the result (None, True), the
\* 'would ' prefix of the comment, and the write.
C8_PreviewEqualsApply ==
    ValidConfig
    => LET dry == _config_xmltree([call EXCEPT !.test = TRUE], diskBefore)
           app == _config_xmltree([call EXCEPT !.test = FALSE], diskBefore)
       IN  /\ dry.out.kind = "dict" /\ app.out.kind = "dict"
           /\ dry.out.ret.changes = app.out.ret.changes
           /\ app.disk[call.conffile[1]].kind = "xml"
           /\ app.out.ret.changes =
                  DiffLines(_xmlpp(loaded), _xmlpp(app.disk[call.conffile[1]].doc))
           /\ dry.out.ret.comment = "would " \o app.out.ret.comment
           /\ dry.out.ret.result = "None" /\ app.out.ret.result = "True"
           /\ dry.disk = diskBefore

\* C9: a returned record has name equal to the resource name and a result
\* among True, False, None; an invocation on a valid config file succeeds,
\* and the record it returns has the diff between the serializations before
\* and after the mutation in its changes field.
C9_ResultRecord ==
    /\ (Invoked /\ out.kind = "dict")
       => /\ out.ret.name = call.name
          /\ out.ret.result \in {"True", "False", "None"}
    /\ ValidConfig
       => /\ out.kind = "dict"
          /\ out.ret.result \in {"True", "None"}
          /\ out.ret.changes = DiffLines(_xmlpp(loaded), _xmlpp(mem))

---------------------------------------------------------------------------
(* Properties of the mutators, stated for SpecMut                          *)

IsHudson(t) == t.tag = "hudson"
IsLocation(t) == t.tag = "jenkins.model.JenkinsLocationConfiguration"

\* The docker cloud entries of a document: those of its first <clouds>
CloudEntries(t) ==
    LET ci == find(t, "clouds")
    IN  IF ci = 0 THEN <<>>
        ELSE LET clouds == t.children[ci]
                 idx == findall(clouds, dockercloud_tag)
             IN  [k \in 1..Len(idx) |-> clouds.children[idx[k]]]

HasName(entry) == find(entry, "name") # 0
\* The text of an entry's <name> child, as <<>> or <<s>>
NameText(entry) == entry.children[find(entry, "name")].text

ChildrenTagged(e, tagname) == {i \in 1..Len(e.children) : e.children[i].tag = tagname}

UniqueNames(t) ==
    LET es == CloudEntries(t)
    IN  \A i, j \in 1..Len(es) :
            (HasName(es[i]) /\ HasName(es[j]) /\ NameText(es[i]) = NameText(es[j]))
            => i = j

Applied(fn) == op.fn = fn /\ op.exc = ""

\* C5: from a location document with at most one adminAddress child, after
\* any non-empty sequence of applications ending with address a the root has
\* exactly one adminAddress child, its text is a, and applying the mutator
\* once more with a gives the same document.
C5_AdminEmailConverges ==
    (IsLocation(tree0) /\ Cardinality(ChildrenTagged(tree0, "adminAddress")) <= 1
       /\ Applied("_set_admin_email"))
    => /\ Cardinality(ChildrenTagged(tree, "adminAddress")) = 1
       /\ \A i \in ChildrenTagged(tree, "adminAddress") :
              tree.children[i].text = <<op.name>>
       /\ _set_admin_email(tree, op.name).tree = tree

\* C5 witness: two applications with different addresses have been made to a
\* document that held an adminAddress, and the document changed
C5_Witness ==
    /\ IsLocation(tree0) /\ Cardinality(ChildrenTagged(tree0, "adminAddress")) = 1
    /\ Applied("_set_admin_email") /\ napply = 2
    /\ prev # tree0 /\ tree # prev

\* C6: from a hudson document with at most one cloud entry per name, the
\* clouds element holds at most one docker cloud entry per name after any
\* sequence of applications, and an application whose name is that of an
\* existing entry creates no entry.
C6_UniquePerName ==
    (IsHudson(tree0) /\ UniqueNames(tree0))
    => /\ UniqueNames(tree)
       /\ (Applied("_insert_docker")
            /\ \E k \in 1..Len(CloudEntries(prev)) :
                   HasName(CloudEntries(prev)[k])
                   /\ NameText(CloudEntries(prev)[k]) = <<op.name>>)
          => Len(CloudEntries(tree)) = Len(CloudEntries(prev))

NoEntryNamed(t, name) ==
    \A k \in 1..Len(CloudEntries(t)) :
        ~(HasName(CloudEntries(t)[k]) /\ NameText(CloudEntries(t)[k]) = <<name>>)

\* The entry the docker cloud mutator is to create for the last application
ExpectedEntry ==
    Node(dockercloud_tag, << <<"plugin", "docker-plugin@0.15.0">> >>,
         << Leaf("name", op.name),
            Node("templates", << <<"class", "empty-list">> >>, <<>>),
            Leaf("serverUrl", op.server_url),
            Leaf("connectTimeout", IntToStr(OrDefault(op.connect_timeout, 0))),
            Leaf("readTimeout", IntToStr(OrDefault(op.read_timeout, 0))),
            Node("credentialsId", <<>>, <<>>),
            Leaf("containerCap", IntToStr(OrDefault(op.capacity, 100))) >>)

\* `t` with `entry` added as the last child of its first <clouds>, which is
\* created as the last child of the root when there is none
WithEntry(t, entry) ==
    LET ci == find(t, "clouds")
        t1 == IF ci = 0 THEN [t EXCEPT !.children = Append(@, Clouds(<<>>))] ELSE t
        c1 == IF ci = 0 THEN Len(t1.children) ELSE ci
    IN  [t1 EXCEPT !.children[c1].children = Append(@, entry)]

\* C7: one application to a hudson document with no cloud entry of the
\* requested name adds exactly one entry under clouds, with the plugin
\* attribute and the seven children (containerCap 100 when no capacity is
\* given), and changes nothing else.
C7_SingleCreation ==
    (Applied("_insert_docker") /\ IsHudson(prev) /\ NoEntryNamed(prev, op.name))
    => tree = WithEntry(prev, ExpectedEntry)

\* C10: an application with name n changes no existing docker cloud entry
\* whose name text differs from n.
C10_OthersUntouched ==
    (Applied("_insert_docker") /\ IsHudson(prev))
    => \A k \in 1..Len(CloudEntries(prev)) :
          (HasName(CloudEntries(prev)[k])
             /\ NameText(CloudEntries(prev)[k]) # <<op.name>>)
          => /\ k <= Len(CloudEntries(tree))
             /\ CloudEntries(tree)[k] = CloudEntries(prev)[k]

===========================================================================
